---- MODULE Spec2Model ----
(***************************************************************************)
(* Model of CGraph (src/src/CGraph.cpp): a weighted graph built from a     *)
(* distance matrix, answering shortest-path queries with Dijkstra trees    *)
(* that are cached per source vertex.                                      *)
(*                                                                         *)
(* Conventions.  A std::vector is a function over 0..size-1, except the    *)
(* containers that only grow by push_back (the two cache lists and the     *)
(* routes), which are sequences: C++ index k is element k+1.  Doubles are  *)
(* integers (all weights of the model are small integers, on which double *)
(* arithmetic is exact).  unsigned int keeps its width: -1 stored in an    *)
(* unsigned int is UINT_MAX.  Where the code indexes a vector out of       *)
(* bounds with operator[] the behaviour is undefined; the model offers the *)
(* outcomes "crash" (abnormal termination) and a read of arbitrary         *)
(* values drawn from small sets.                                           *)
(***************************************************************************)
EXTENDS Integers, Sequences, FiniteSets, TLC

\* ------------------------------------------------------------------------
\* Bounds of the model
MaxOrder == 3
MaxWeight == 1

\* Width of unsigned int in the model (32 in the build; the model checker's
\* integers are narrower than that, and nothing below depends on the width
\* beyond UINT_MAX exceeding every order and label)
UIntBits == 8

\* numeric_limits<unsigned int>::max(), also the value of (unsigned int)-1
UINT_MAX == 2 ^ UIntBits - 1

\* Edge weights: the no-edge sentinel -1 and the non-negative weights
Weights == {-1} \cup (0..MaxWeight)

\* Values an out-of-bounds read of a double may produce
GarbageDoubles == {-1, MaxWeight + 1}

\* Values an out-of-bounds read of a row's size may produce
GarbageSizes == 0..MaxOrder

Size(v) == Cardinality(DOMAIN v)

Range(f) == {f[x] : x \in DOMAIN f}

\* Line 286 without the reversal
Reverse_Forgotten(s) == s

\* vector(rbegin, rend), line 286
Reverse(s) == [k \in 1..Len(s) |-> s[Len(s) + 1 - k]]

Last(s) == s[Len(s)]

VARIABLES
    inputMatrix,                  \* the constructor's argument distanceMatrix
    inputLabels,                  \* the constructor's argument vertexLabels
    construction,                 \* how the constructor ended, and its distanceMatrixType
    m_Order,                      \* unsigned int
    m_DistanceMatrix,             \* vector<vector<double>>
    m_AdjacencyMatrix,            \* vector<vector<bool>>
    m_ExternalToInternal,         \* map<unsigned,unsigned>
    m_InternalToExternal,         \* vector<unsigned>
    m_DijkstraStartVertices,      \* map<unsigned,unsigned>: source -> slot index
    m_DijkstraOutputRoutes,       \* vector<vector<unsigned>>: parent vectors
    m_DijkstraShortestDistances,  \* vector<vector<double>>: distance vectors
    shortestDistance,             \* the caller's output distance (by reference)
    outputRoute,                  \* the caller's output route (by reference)
    call,                         \* the last ShortestDistance call and how it ended
    rootedAt,                     \* sources for which a tree was ever stored
    instance,                     \* which CGraph object of its owner this is
    dijkstraRun,                  \* locals of a run of InternalDijkstra taken step by step
    callers                       \* position and locals of each unsynchronised caller

graphVars == <<m_Order, m_DistanceMatrix, m_AdjacencyMatrix,
               m_ExternalToInternal, m_InternalToExternal>>

cacheVars == <<m_DijkstraStartVertices, m_DijkstraOutputRoutes,
               m_DijkstraShortestDistances>>

inputVars == <<inputMatrix, inputLabels, construction>>

callVars == <<shortestDistance, outputRoute, call, rootedAt>>

vars == <<inputMatrix, inputLabels, construction,
          m_Order, m_DistanceMatrix, m_AdjacencyMatrix, m_ExternalToInternal,
          m_InternalToExternal, m_DijkstraStartVertices, m_DijkstraOutputRoutes,
          m_DijkstraShortestDistances, shortestDistance, outputRoute, call, rootedAt,
          instance, dijkstraRun, callers>>

\* The first CGraph object its owner builds
FirstInstance == [number |-> 1, slotsDestroyed |-> 0]

\* No run of InternalDijkstra is being followed step by step
NoRun ==
    [pc |-> "none", startVertex |-> 0, shortestDistances |-> <<>>,
     outputRoutes |-> <<>>, knownDistances |-> <<>>, nextClosest |-> 0, iterations |-> 0]

\* The graph has one caller, whose calls run one after another
NoCallers == <<>>

\* ------------------------------------------------------------------------
\* Construction

Vertices == 0..(m_Order - 1)

\* distanceMatrix[i].size(); row i of a matrix with no row i is read out of
\* bounds and its size is whatever the read finds
RowSize(distanceMatrix, i, garbageSize) ==
    IF i \in DOMAIN distanceMatrix THEN Size(distanceMatrix[i]) ELSE garbageSize[i]

\* distanceMatrix[i][j]; an entry the matrix does not have is read out of bounds
Entry(distanceMatrix, i, j, garbageDouble) ==
    IF i \in DOMAIN distanceMatrix /\ j \in DOMAIN distanceMatrix[i]
    THEN distanceMatrix[i][j]
    ELSE garbageDouble[<<i, j>>]

RECURSIVE CheckRows(_, _, _, _)
CheckRows(i, matrixShape, distanceMatrix, order) ==
    IF i >= order THEN matrixShape
    ELSE LET rowLength == Size(distanceMatrix[i]) IN
         IF rowLength > UINT_MAX THEN "tooLarge"
         ELSE IF matrixShape = "square" /\ rowLength # order THEN "badShape"
         ELSE IF matrixShape = "lowerTriangular" /\ i > 0
                 /\ rowLength # Size(distanceMatrix[i - 1]) + 1 THEN "badShape"
         ELSE IF matrixShape = "upperTriangular" /\ i > 0
                 /\ rowLength # Size(distanceMatrix[i - 1]) - 1 THEN "badShape"
         ELSE CheckRows(i + 1, matrixShape, distanceMatrix, order)

\* CheckInput_DistMat without the test of lines 438-440
CheckInput_DistMat_NoSizeCheck(distanceMatrix, order, garbageSize) ==
    LET size0 == RowSize(distanceMatrix, 0, garbageSize)
        size1 == RowSize(distanceMatrix, 1, garbageSize)
        matrixShape ==
            IF size0 = order /\ size1 = order THEN "square"
            ELSE IF size0 = 1 /\ size1 = 2 THEN "lowerTriangular"
            ELSE IF size0 = order /\ size1 = order - 1 THEN "upperTriangular"
            ELSE "badShape"
        rows == IF matrixShape = "badShape" THEN "badShape"
                ELSE CheckRows(0, matrixShape, distanceMatrix, order)
    IN  IF rows \in {"badShape", "tooLarge"} THEN rows
        ELSE IF \E i \in 0..(order - 1) : \E j \in DOMAIN distanceMatrix[i] :
                   distanceMatrix[i][j] < 0 /\ distanceMatrix[i][j] # -1
             THEN "invalidElements"
        ELSE matrixShape

CheckInput_DistMat(distanceMatrix, order, garbageSize) ==
    LET size0 == RowSize(distanceMatrix, 0, garbageSize)
        size1 == RowSize(distanceMatrix, 1, garbageSize)
        matrixShape ==
            IF size0 = order /\ size1 = order THEN "square"
            ELSE IF size0 = 1 /\ size1 = 2 THEN "lowerTriangular"
            ELSE IF size0 = order /\ size1 = order - 1 THEN "upperTriangular"
            ELSE "badShape"
        rows == IF matrixShape = "badShape" THEN "badShape"
                ELSE CheckRows(0, matrixShape, distanceMatrix, order)
    IN  IF Size(distanceMatrix) > UINT_MAX THEN "tooLarge"
        ELSE IF rows \in {"badShape", "tooLarge"} THEN rows
        ELSE IF \E i \in 0..(order - 1) : \E j \in DOMAIN distanceMatrix[i] :
                   distanceMatrix[i][j] < 0 /\ distanceMatrix[i][j] # -1
             THEN "invalidElements"
        ELSE matrixShape

\* Lines 50-79 without the copies from the supplied triangle into the other
\* one: the other triangle keeps the 0 the matrix was allocated with
NormalisedMatrix_NoMirror(distanceMatrixType, distanceMatrix, order, garbageDouble) ==
    [i \in 0..(order - 1) |-> [j \in 0..(order - 1) |->
        CASE distanceMatrixType = "square" -> distanceMatrix[i][j]
          [] distanceMatrixType = "lowerTriangular" ->
                IF i < j THEN 0 ELSE Entry(distanceMatrix, i, j, garbageDouble)
          [] distanceMatrixType = "upperTriangular" ->
                IF i > j THEN 0 ELSE Entry(distanceMatrix, i, j, garbageDouble)]]

\* The normalised m_DistanceMatrix for an accepted shape
NormalisedMatrix(distanceMatrixType, distanceMatrix, order, garbageDouble) ==
    [i \in 0..(order - 1) |-> [j \in 0..(order - 1) |->
        CASE distanceMatrixType = "square" -> distanceMatrix[i][j]
          [] distanceMatrixType = "lowerTriangular" ->
                IF i < j THEN Entry(distanceMatrix, j, i, garbageDouble)
                ELSE Entry(distanceMatrix, i, j, garbageDouble)
          [] distanceMatrixType = "upperTriangular" ->
                IF i > j THEN Entry(distanceMatrix, j, i, garbageDouble)
                ELSE Entry(distanceMatrix, i, j, garbageDouble)]]

\* m_ExternalToInternal after the loop of line 88: a repeated label keeps the
\* last index it was given
LabelMap(vertexLabels) ==
    [l \in Range(vertexLabels) |->
        CHOOSE i \in DOMAIN vertexLabels :
            /\ vertexLabels[i] = l
            /\ \A k \in DOMAIN vertexLabels : vertexLabels[k] = l => k <= i]

\* Does the constructor index the input out of bounds on this input
ReadsOutOfBounds(distanceMatrix, vertexLabels) ==
    LET order == Size(distanceMatrix) % (UINT_MAX + 1)
        none == [i \in 0..1 |-> 0]
        distanceMatrixType == CheckInput_DistMat(distanceMatrix, order, none)
    IN  \/ Size(distanceMatrix) < 2
        \/ /\ distanceMatrixType = "upperTriangular"
           /\ \E i, j \in 0..(order - 1) :
                IF i > j THEN i \notin DOMAIN distanceMatrix[j]
                ELSE j \notin DOMAIN distanceMatrix[i]
        \/ /\ distanceMatrixType \in {"lowerTriangular", "upperTriangular"}
           /\ order = Size(vertexLabels)
           /\ order = Size(LabelMap(vertexLabels))

\* The constructor, with the values its out-of-bounds reads find
CGraph(distanceMatrix, vertexLabels, garbageSize, garbageDouble) ==
    LET order == Size(distanceMatrix) % (UINT_MAX + 1)
        distanceMatrixType == CheckInput_DistMat(distanceMatrix, order, garbageSize)
        failed(e) == [status |-> e, distanceMatrixType |-> distanceMatrixType]
    IN  CASE distanceMatrixType = "tooLarge" -> failed("InputDistMat_MatrixTooLarge")
          [] distanceMatrixType = "badShape" -> failed("InputDistMat_NotSquareMatrix")
          [] distanceMatrixType = "invalidElements" -> failed("InputDistMat_InvalidElements")
          [] OTHER ->
                IF order # Size(vertexLabels) THEN failed("InputVertexLabels_BadSize")
                ELSE IF order # Size(LabelMap(vertexLabels))
                     THEN failed("InputVertexLabels_RepeatedLabel")
                ELSE [status |-> "constructed",
                      distanceMatrixType |-> distanceMatrixType,
                      m_Order |-> order,
                      m_InternalToExternal |-> vertexLabels,
                      m_ExternalToInternal |-> LabelMap(vertexLabels),
                      m_DistanceMatrix |->
                          NormalisedMatrix(distanceMatrixType, distanceMatrix, order,
                                           garbageDouble),
                      m_AdjacencyMatrix |->
                          [i \in 0..(order - 1) |-> [j \in 0..(order - 1) |->
                              Entry(distanceMatrix, i, j, garbageDouble) >= 0 /\ i # j]]]

\* Every way the constructor can end on an input.  A matrix of fewer than
\* two rows is read out of bounds by the shape test itself (lines 445-449);
\* a matrix of two rows or more only after it has been classified
CGraphOutcomes(distanceMatrix, vertexLabels) ==
    LET order == Size(distanceMatrix) % (UINT_MAX + 1)
        noRows == {i \in 0..1 : i \notin DOMAIN distanceMatrix}
        noEntries == {p \in (0..(order - 1)) \X (0..(order - 1)) :
                         p[2] \notin DOMAIN distanceMatrix[p[1]]}
    IN  IF ~ReadsOutOfBounds(distanceMatrix, vertexLabels)
        THEN {CGraph(distanceMatrix, vertexLabels, <<>>, <<>>)}
        ELSE {[status |-> "crash",
               distanceMatrixType |->
                   IF noRows # {} THEN "undefined"
                   ELSE CheckInput_DistMat(distanceMatrix, order, <<>>)]} \cup
             {CGraph(distanceMatrix, vertexLabels, garbageSize, garbageDouble) :
                 garbageSize \in [noRows -> GarbageSizes],
                 garbageDouble \in [noEntries -> GarbageDoubles]}

\* Inputs of the model: square matrices.  Each pair of vertices i < j gets a
\* weight or no edge, which the matrix holds in both directions (an
\* undirected graph) or only in the direction of the ring
\* 0 -> 1 -> ... -> n-1 -> 0 (a directed graph).  The code reads
\* the diagonal entry of a vertex only as that vertex's distance to itself,
\* so the diagonal runs through the weights: 0, ..., MaxWeight, -1, 0, ...
Pairs(n) == {p \in (0..(n - 1)) \X (0..(n - 1)) : p[1] < p[2]}

Ways == {"both", "ring"}

Holds(way, i, j, n) ==
    CASE way = "both" -> TRUE
      [] way = "ring" -> j = (i + 1) % n

SquareMatrices(n) ==
    {[i \in 0..(n - 1) |-> [j \in 0..(n - 1) |->
        IF i = j THEN ((i + 1) % (MaxWeight + 2)) - 1
        ELSE IF ~Holds(way, i, j, n) THEN -1
        ELSE IF i < j THEN w[<<i, j>>] ELSE w[<<j, i>>]]] :
        w \in [Pairs(n) -> Weights], way \in Ways}

LabelLists(n) ==
    {[i \in 0..(n - 1) |-> 10 * (n - i)]}

\* ------------------------------------------------------------------------
\* InternalDijkstra

\* The scan of lines 382-395, from index i on
RECURSIVE ScanNextClosest(_, _, _, _, _)
ScanNextClosest(i, nextClosest, nextShortestDistance, shortestDistances, knownDistances) ==
    IF i >= m_Order THEN nextClosest
    ELSE IF /\ ~knownDistances[i]
            /\ shortestDistances[i] # -1
            /\ (nextShortestDistance = -1 \/ shortestDistances[i] < nextShortestDistance)
         THEN ScanNextClosest(i + 1, i, shortestDistances[i], shortestDistances,
                              knownDistances)
         ELSE ScanNextClosest(i + 1, nextClosest, nextShortestDistance,
                              shortestDistances, knownDistances)

\* The condition of lines 400-402
Relaxes(i, nextClosest, shortestDistances, knownDistances) ==
    /\ ~knownDistances[i]
    /\ m_AdjacencyMatrix[nextClosest][i]
    /\ \/ shortestDistances[i] = -1
       \/ shortestDistances[i] >
              shortestDistances[nextClosest] + m_DistanceMatrix[nextClosest][i]

\* The check of lines 417-422
MoreVertices(shortestDistances, knownDistances) ==
    \E i \in Vertices : ~knownDistances[i] /\ shortestDistances[i] # -1

\* The iterations of the main loop (lines 379-423) from a state in which
\* some unconfirmed vertex has an estimate
RECURSIVE DijkstraLoop(_, _, _)
DijkstraLoop(shortestDistances, outputRoutes, knownDistances) ==
    LET nextClosest == ScanNextClosest(0, UINT_MAX, -1, shortestDistances, knownDistances)
        newDistances ==
            [i \in Vertices |->
                IF Relaxes(i, nextClosest, shortestDistances, knownDistances)
                THEN shortestDistances[nextClosest] + m_DistanceMatrix[nextClosest][i]
                ELSE shortestDistances[i]]
        newRoutes ==
            [i \in Vertices |->
                IF Relaxes(i, nextClosest, shortestDistances, knownDistances)
                THEN nextClosest
                ELSE outputRoutes[i]]
        newKnown == [knownDistances EXCEPT ![nextClosest] = TRUE]
    IN  IF MoreVertices(newDistances, newKnown)
        THEN DijkstraLoop(newDistances, newRoutes, newKnown)
        ELSE [shortestDistances |-> newDistances, outputRoutes |-> newRoutes]

\* The vectors one run from startVertex can produce (lines 360-423).  The
\* loop body runs before its condition is first tested: when no vertex is
\* adjacent to startVertex the scan leaves nextClosest at UINT_MAX and the
\* body indexes m_AdjacencyMatrix, shortestDistances and m_DistanceMatrix
\* with it.  Such a run crashes, or reads the adjacency bits as false
\* (found = -1), or reads them as true and stores the double it finds as
\* the estimate of every other vertex, with parent nextClosest = UINT_MAX.
\* Line 413 then sets bit UINT_MAX of the local knownDistances, half a
\* gigabyte past its few bytes at width 32: the write crashes or falls
\* outside the objects of the graph, which are allocated next to it.
DijkstraRuns(startVertex) ==
    LET shortestDistances ==
            [i \in Vertices |->
                IF i = startVertex \/ m_AdjacencyMatrix[startVertex][i]
                THEN m_DistanceMatrix[startVertex][i] ELSE -1]
        outputRoutes ==
            [i \in Vertices |->
                IF i = startVertex \/ m_AdjacencyMatrix[startVertex][i]
                THEN startVertex ELSE UINT_MAX]
        knownDistances == [i \in Vertices |-> i = startVertex]
        nextClosest == ScanNextClosest(0, UINT_MAX, -1, shortestDistances, knownDistances)
        run(sd, or) == [status |-> "done", shortestDistances |-> sd, outputRoutes |-> or]
    IN  IF nextClosest # UINT_MAX
        THEN LET r == DijkstraLoop(shortestDistances, outputRoutes, knownDistances)
             IN  {run(r.shortestDistances, r.outputRoutes)}
        ELSE {[status |-> "crash"]} \cup
             {LET newDistances ==
                      [i \in Vertices |-> IF i = startVertex THEN shortestDistances[i]
                                          ELSE found]
              IN  IF MoreVertices(newDistances, knownDistances)
                  THEN LET r == DijkstraLoop(newDistances, outputRoutes, knownDistances)
                       IN  run(r.shortestDistances, r.outputRoutes)
                  ELSE run(newDistances, outputRoutes) :
              found \in GarbageDoubles}

\* ------------------------------------------------------------------------
\* InternalDijkstra taken one iteration of its main loop at a time.  The
\* locals of the run are the fields of dijkstraRun; pc is "loop" while
\* moreVertices is true and "done" once it is false

\* Lines 348-378, for a valid startVertex that has no slot yet
BeginRun(startVertex) ==
    /\ dijkstraRun.pc = "none"
    /\ startVertex \in Vertices
    /\ startVertex \notin DOMAIN m_DijkstraStartVertices
    /\ dijkstraRun' =
           [pc |-> "loop",
            startVertex |-> startVertex,
            shortestDistances |->
                [i \in Vertices |->
                    IF i = startVertex \/ m_AdjacencyMatrix[startVertex][i]
                    THEN m_DistanceMatrix[startVertex][i] ELSE -1],
            outputRoutes |->
                [i \in Vertices |->
                    IF i = startVertex \/ m_AdjacencyMatrix[startVertex][i]
                    THEN startVertex ELSE UINT_MAX],
            knownDistances |-> [i \in Vertices |-> i = startVertex],
            nextClosest |-> UINT_MAX,
            iterations |-> 0]
    /\ UNCHANGED <<inputVars, graphVars, cacheVars, callVars, instance, callers>>

\* One pass through lines 381-422.  When the scan finds no vertex,
\* nextClosest is UINT_MAX and lines 400-413 index with it: the pass
\* crashes, or finds the adjacency bits false (found = -1), or finds them
\* true and stores the double it reads as every other vertex's estimate
Iteration ==
    /\ dijkstraRun.pc = "loop"
    /\ LET shortestDistances == dijkstraRun.shortestDistances
           outputRoutes == dijkstraRun.outputRoutes
           knownDistances == dijkstraRun.knownDistances
           nextClosest == ScanNextClosest(0, UINT_MAX, -1, shortestDistances,
                                          knownDistances)
           after(sd, or, known) ==
               [dijkstraRun EXCEPT
                   !.pc = IF MoreVertices(sd, known) THEN "loop" ELSE "done",
                   !.shortestDistances = sd,
                   !.outputRoutes = or,
                   !.knownDistances = known,
                   !.nextClosest = nextClosest,
                   !.iterations = @ + 1]
       IN  IF nextClosest # UINT_MAX
           THEN dijkstraRun' =
                    after([i \in Vertices |->
                              IF Relaxes(i, nextClosest, shortestDistances,
                                         knownDistances)
                              THEN shortestDistances[nextClosest]
                                       + m_DistanceMatrix[nextClosest][i]
                              ELSE shortestDistances[i]],
                          [i \in Vertices |->
                              IF Relaxes(i, nextClosest, shortestDistances,
                                         knownDistances)
                              THEN nextClosest
                              ELSE outputRoutes[i]],
                          [knownDistances EXCEPT ![nextClosest] = TRUE])
           ELSE \/ dijkstraRun' = [dijkstraRun EXCEPT !.pc = "crash",
                                                      !.nextClosest = nextClosest]
                \/ \E found \in GarbageDoubles :
                      dijkstraRun' =
                          after([i \in Vertices |->
                                    IF i = dijkstraRun.startVertex
                                    THEN shortestDistances[i] ELSE found],
                                outputRoutes, knownDistances)
    /\ UNCHANGED <<inputVars, graphVars, cacheVars, callVars, instance, callers>>

\* Lines 426-430: the vectors of the finished run become a new slot
StoreRun ==
    /\ dijkstraRun.pc = "done"
    /\ m_DijkstraOutputRoutes' =
           Append(m_DijkstraOutputRoutes, dijkstraRun.outputRoutes)
    /\ m_DijkstraShortestDistances' =
           Append(m_DijkstraShortestDistances, dijkstraRun.shortestDistances)
    /\ m_DijkstraStartVertices' =
           [v \in DOMAIN m_DijkstraStartVertices \cup {dijkstraRun.startVertex} |->
               IF v = dijkstraRun.startVertex THEN Len(m_DijkstraOutputRoutes)
               ELSE m_DijkstraStartVertices[v]]
    /\ rootedAt' = rootedAt \cup {dijkstraRun.startVertex}
    /\ dijkstraRun' = NoRun
    /\ UNCHANGED <<inputVars, graphVars, shortestDistance, outputRoute, call,
                   instance, callers>>

\* InternalDijkstra storing the new vectors over the last slot when there is
\* one, instead of appending them
InternalDijkstra_Overwrites(startVertex) ==
    LET same(st) == [status |-> st,
                     startVertices |-> m_DijkstraStartVertices,
                     outputRoutes |-> m_DijkstraOutputRoutes,
                     shortestDistances |-> m_DijkstraShortestDistances]
    IN  IF startVertex < 0 \/ startVertex >= m_Order
        THEN {same("Dijkstra_InvalidStartVertex")}
        ELSE IF startVertex \in DOMAIN m_DijkstraStartVertices
        THEN {same("done")}
        ELSE {IF r.status = "crash" THEN same("crash")
              ELSE [status |-> "done",
                    startVertices |->
                        [v \in DOMAIN m_DijkstraStartVertices \cup {startVertex} |->
                            IF v = startVertex
                            THEN IF m_DijkstraOutputRoutes = <<>> THEN 0
                                 ELSE Len(m_DijkstraOutputRoutes) - 1
                            ELSE m_DijkstraStartVertices[v]],
                    outputRoutes |->
                        IF m_DijkstraOutputRoutes = <<>> THEN <<r.outputRoutes>>
                        ELSE [m_DijkstraOutputRoutes
                                EXCEPT ![Len(m_DijkstraOutputRoutes)] = r.outputRoutes],
                    shortestDistances |->
                        IF m_DijkstraShortestDistances = <<>> THEN <<r.shortestDistances>>
                        ELSE [m_DijkstraShortestDistances
                                EXCEPT ![Len(m_DijkstraShortestDistances)] =
                                    r.shortestDistances]] :
              r \in DijkstraRuns(startVertex)}

\* InternalDijkstra(startVertex): every way the call can end, with the cache
\* it leaves
InternalDijkstra(startVertex) ==
    LET same(st) == [status |-> st,
                     startVertices |-> m_DijkstraStartVertices,
                     outputRoutes |-> m_DijkstraOutputRoutes,
                     shortestDistances |-> m_DijkstraShortestDistances]
    IN  IF startVertex < 0 \/ startVertex >= m_Order
        THEN {same("Dijkstra_InvalidStartVertex")}
        ELSE IF startVertex \in DOMAIN m_DijkstraStartVertices
        THEN {same("done")}
        ELSE {IF r.status = "crash" THEN same("crash")
              ELSE [status |-> "done",
                    startVertices |->
                        [v \in DOMAIN m_DijkstraStartVertices \cup {startVertex} |->
                            IF v = startVertex THEN Len(m_DijkstraOutputRoutes)
                            ELSE m_DijkstraStartVertices[v]],
                    outputRoutes |-> Append(m_DijkstraOutputRoutes, r.outputRoutes),
                    shortestDistances |->
                        Append(m_DijkstraShortestDistances, r.shortestDistances)] :
              r \in DijkstraRuns(startVertex)}

\* ------------------------------------------------------------------------
\* InternalShortestDistance and ShortestDistance

\* The while loops of lines 282-283 and 303-304: push the parent of the last
\* vertex until the target is met.  A last element that is no index of the
\* parent vector (the no-parent value UINT_MAX) is used as an index all the
\* same: the read is out of bounds and crashes or finds some value; a walk
\* that strays a second time never ends normally.  A walk that comes back
\* to a vertex it has left, by parents read within bounds, goes round for
\* ever: the route grows until push_back throws std::bad_alloc.
RECURSIVE Unwind(_, _, _, _)
Unwind(route, target, parents, strayed) ==
    IF Last(route) = target THEN {[status |-> "done", route |-> route]}
    ELSE IF Last(route) \in DOMAIN parents
         THEN IF \E k \in 1..(Len(route) - 1) :
                     /\ route[k] = Last(route)
                     /\ \A j \in k..Len(route) : route[j] \in DOMAIN parents
              THEN {[status |-> "bad_alloc", route |-> route]}
              ELSE Unwind(Append(route, parents[Last(route)]), target, parents,
                          strayed)
    ELSE IF strayed THEN {[status |-> "crash", route |-> route]}
    ELSE {[status |-> "crash", route |-> route]} \cup
         UNION {Unwind(Append(route, found), target, parents, TRUE) : found \in Vertices}

\* Lines 256-270 with the preference ignored: a fresh tree is always rooted
\* at the end vertex
ChooseTree_IgnoresPreference(startVertex, endVertex, preferStartVertex) ==
    IF endVertex \in DOMAIN m_DijkstraStartVertices
    THEN [fromStartVertex |-> FALSE, dijkstraCalls |-> <<>>]
    ELSE IF startVertex \in DOMAIN m_DijkstraStartVertices
    THEN [fromStartVertex |-> TRUE, dijkstraCalls |-> <<>>]
    ELSE [fromStartVertex |-> FALSE, dijkstraCalls |-> <<endVertex>>]

\* Lines 256-270 without the two cache tests: InternalDijkstra is called on
\* every query
ChooseTree_NoCacheCheck(startVertex, endVertex, preferStartVertex) ==
    IF preferStartVertex
    THEN [fromStartVertex |-> TRUE, dijkstraCalls |-> <<startVertex>>]
    ELSE [fromStartVertex |-> FALSE, dijkstraCalls |-> <<endVertex>>]

\* Lines 256-270 with the two cache tests in the other order
ChooseTree_StartFirst(startVertex, endVertex, preferStartVertex) ==
    IF startVertex \in DOMAIN m_DijkstraStartVertices
    THEN [fromStartVertex |-> TRUE, dijkstraCalls |-> <<>>]
    ELSE IF endVertex \in DOMAIN m_DijkstraStartVertices
    THEN [fromStartVertex |-> FALSE, dijkstraCalls |-> <<>>]
    ELSE IF preferStartVertex
    THEN [fromStartVertex |-> TRUE, dijkstraCalls |-> <<startVertex>>]
    ELSE [fromStartVertex |-> FALSE, dijkstraCalls |-> <<endVertex>>]

\* Lines 292 and 307 reading the same entry in both branches
ReadDistance_SameEntry(distances, fromStartVertex, startVertex, endVertex) ==
    distances[endVertex]

\* Lines 292 and 307: the entry of the tree's distance vector that becomes
\* shortestDistance
ReadDistance(distances, fromStartVertex, startVertex, endVertex) ==
    IF fromStartVertex THEN distances[endVertex] ELSE distances[startVertex]

\* Lines 256-270: which tree the query uses (fromStartVertex) and the
\* vertices it calls InternalDijkstra for
ChooseTree(startVertex, endVertex, preferStartVertex) ==
    IF endVertex \in DOMAIN m_DijkstraStartVertices
    THEN [fromStartVertex |-> FALSE, dijkstraCalls |-> <<>>]
    ELSE IF startVertex \in DOMAIN m_DijkstraStartVertices
    THEN [fromStartVertex |-> TRUE, dijkstraCalls |-> <<>>]
    ELSE IF preferStartVertex
    THEN [fromStartVertex |-> TRUE, dijkstraCalls |-> <<startVertex>>]
    ELSE [fromStartVertex |-> FALSE, dijkstraCalls |-> <<endVertex>>]

\* InternalShortestDistance: every way the call can end, with the cache it
\* leaves and what it wrote to shortestDistance and outputRoute
InternalShortestDistance(startVertex, endVertex, preferStartVertex) ==
    LET tree == ChooseTree(startVertex, endVertex, preferStartVertex)
        fromStartVertex == tree.fromStartVertex
        calls == tree.dijkstraCalls
        root == IF fromStartVertex THEN startVertex ELSE endVertex
        other == IF fromStartVertex THEN endVertex ELSE startVertex
        caches == IF calls = <<>>
                  THEN {[status |-> "done",
                         startVertices |-> m_DijkstraStartVertices,
                         outputRoutes |-> m_DijkstraOutputRoutes,
                         shortestDistances |-> m_DijkstraShortestDistances]}
                  ELSE InternalDijkstra(calls[1])
        ended(c, st, d, r) ==
            [status |-> st, startVertices |-> c.startVertices,
             outputRoutes |-> c.outputRoutes, shortestDistances |-> c.shortestDistances,
             shortestDistance |-> d, outputRoute |-> r,
             fromStartVertex |-> fromStartVertex, dijkstraCalls |-> calls]
    IN  UNION {
            IF c.status # "done" THEN {ended(c, c.status, 0, <<>>)}
            ELSE LET index == c.startVertices[root]
                 IN  {IF w.status # "done"
                      THEN ended(c, w.status, 0, <<>>)
                      ELSE ended(c, "done",
                                 ReadDistance(c.shortestDistances[index + 1],
                                              fromStartVertex, startVertex, endVertex),
                                 IF fromStartVertex THEN Reverse(w.route) ELSE w.route) :
                      w \in Unwind(<<other>>, root, c.outputRoutes[index + 1], FALSE)} :
            c \in caches}

\* InternalToExternal(unsigned) with operator[] in place of at(): an index
\* that the vector does not have is read all the same
InternalToExternal_Unchecked(vertex) ==
    [status |-> "returned",
     value |-> IF vertex \in DOMAIN m_InternalToExternal
               THEN m_InternalToExternal[vertex] ELSE 0]

\* InternalToExternal(unsigned), lines 139-142: vector::at throws
\* std::out_of_range for an index that is not below the vector's size
InternalToExternal(vertex) ==
    IF vertex \in DOMAIN m_InternalToExternal
    THEN [status |-> "returned", value |-> m_InternalToExternal[vertex]]
    ELSE [status |-> "out_of_range"]

\* ExternalToInternal(unsigned), lines 166-169: map::at throws
\* std::out_of_range for a key that the map does not hold
ExternalToInternal(vertex) ==
    IF vertex \in DOMAIN m_ExternalToInternal
    THEN [status |-> "returned", value |-> m_ExternalToInternal[vertex]]
    ELSE [status |-> "out_of_range"]

\* InternalToExternal(vector&) with operator[] in place of at(): an element
\* that is no index is converted to whatever the read finds
InternalToExternalRoute_Unchecked(vertices) ==
    [status |-> "returned",
     vertices |-> [k \in 1..Len(vertices) |->
                      IF vertices[k] \in DOMAIN m_InternalToExternal
                      THEN m_InternalToExternal[vertices[k]] ELSE 0]]

\* InternalToExternal(vector&), lines 144-148: converts in place, element by
\* element, and at() throws at the first element that is no index
InternalToExternalRoute(vertices) ==
    LET bad == {k \in 1..Len(vertices) : vertices[k] \notin DOMAIN m_InternalToExternal}
        stop == IF bad = {} THEN Len(vertices) + 1
                ELSE CHOOSE k \in bad : \A l \in bad : k <= l
    IN  [status |-> IF bad = {} THEN "returned" ELSE "out_of_range",
         vertices |-> [k \in 1..Len(vertices) |->
                          IF k < stop THEN m_InternalToExternal[vertices[k]]
                          ELSE vertices[k]]]

\* ShortestDistance with operator[] in place of at() in ExternalToInternal:
\* a label the map does not hold is given the default index 0
ShortestDistanceOutcomes_DefaultIndex(startVertex, endVertex, preferStartVertex) ==
    LET index(label) == IF label \in DOMAIN m_ExternalToInternal
                        THEN m_ExternalToInternal[label] ELSE 0
    IN  {IF o.status # "done" THEN o
         ELSE LET converted == InternalToExternalRoute(o.outputRoute)
              IN  [o EXCEPT !.status = converted.status,
                            !.outputRoute = converted.vertices] :
         o \in InternalShortestDistance(index(startVertex), index(endVertex),
                                        preferStartVertex)}

\* ShortestDistance without lines 209-210: the labels are passed on as if
\* they were internal indices
ShortestDistanceOutcomes_NoLookup(startVertex, endVertex, preferStartVertex) ==
    {IF o.status # "done" THEN o
     ELSE LET converted == InternalToExternalRoute(o.outputRoute)
          IN  [o EXCEPT !.status = converted.status,
                        !.outputRoute = converted.vertices] :
     o \in InternalShortestDistance(startVertex, endVertex, preferStartVertex)}

\* ShortestDistance (lines 206-217): every way the public call can end.
\* at() throws std::out_of_range for a label the map does not hold, before
\* anything is computed or written (lines 209-210)
ShortestDistanceOutcomes(startVertex, endVertex, preferStartVertex) ==
    IF \/ startVertex \notin DOMAIN m_ExternalToInternal
       \/ endVertex \notin DOMAIN m_ExternalToInternal
    THEN {[status |-> "out_of_range", startVertices |-> m_DijkstraStartVertices,
           outputRoutes |-> m_DijkstraOutputRoutes,
           shortestDistances |-> m_DijkstraShortestDistances,
           shortestDistance |-> shortestDistance, outputRoute |-> outputRoute,
           fromStartVertex |-> FALSE, dijkstraCalls |-> <<>>]}
    ELSE {IF o.status # "done" THEN o
          ELSE LET converted == InternalToExternalRoute(o.outputRoute)
               IN  [o EXCEPT !.status = converted.status,
                             !.outputRoute = converted.vertices] :
          o \in InternalShortestDistance(m_ExternalToInternal[startVertex],
                                         m_ExternalToInternal[endVertex],
                                         preferStartVertex)}

\* ShortestDistance with operator[] in place of at() in ExternalToInternal:
\* map::operator[] inserts a label the map does not hold, with index 0
GraphAfterQuery_Inserting(startVertex, endVertex) ==
    /\ m_ExternalToInternal' =
           [l \in DOMAIN m_ExternalToInternal \cup {startVertex, endVertex} |->
               IF l \in DOMAIN m_ExternalToInternal THEN m_ExternalToInternal[l] ELSE 0]
    /\ UNCHANGED <<m_Order, m_DistanceMatrix, m_AdjacencyMatrix, m_InternalToExternal>>

\* What a call leaves in the members the constructor set.  The call reads
\* m_ExternalToInternal and m_InternalToExternal through the const
\* overloads of at() (lines 141, 147, 168, 174), which insert nothing, and
\* m_Order, m_AdjacencyMatrix and m_DistanceMatrix as right-hand sides and
\* conditions only (lines 350-420); every assignment of lines 206-431 is
\* to a local, to the caller's two outputs or to an m_Dijkstra member
GraphAfterQuery(startVertex, endVertex) ==
    UNCHANGED graphVars

\* The record of a call: its arguments, how it ended, what it left in the
\* caller's two output variables, what the cache held when it began, and
\* how its arguments relate to those of the call before it
NoCall ==
    [status |-> "none", startVertex |-> 0, endVertex |-> 0, preferStartVertex |-> FALSE,
     fromStartVertex |-> FALSE, dijkstraCalls |-> <<>>, slotsBefore |-> 0,
     cachedBefore |-> {}, rootedBefore |-> {}, previous |-> "other"]

Previous(startVertex, endVertex, preferStartVertex) ==
    IF call.status = "none" THEN "other"
    ELSE IF /\ call.startVertex = startVertex /\ call.endVertex = endVertex
            /\ call.preferStartVertex = preferStartVertex THEN "same"
    ELSE IF call.startVertex = endVertex /\ call.endVertex = startVertex THEN "swapped"
    ELSE "other"

\* One call of ShortestDistance by the owner of the graph, who passes its
\* two output variables: a call that gets as far as InternalShortestDistance
\* finds them holding 0 and the empty route, and a call that throws before
\* leaves in them what they held.  A call that crashes ends the process:
\* nothing of the graph is left.
ShortestDistance(startVertex, endVertex, preferStartVertex) ==
    /\ call.status # "crash"
    /\ \E o \in ShortestDistanceOutcomes(startVertex, endVertex, preferStartVertex) :
        IF o.status = "crash"
        THEN /\ m_DijkstraStartVertices' = <<>>
             /\ m_DijkstraOutputRoutes' = <<>>
             /\ m_DijkstraShortestDistances' = <<>>
             /\ shortestDistance' = 0
             /\ outputRoute' = <<>>
             /\ rootedAt' = {}
             /\ call' = [NoCall EXCEPT !.status = "crash",
                                       !.startVertex = startVertex,
                                       !.endVertex = endVertex,
                                       !.preferStartVertex = preferStartVertex,
                                       !.fromStartVertex = o.fromStartVertex,
                                       !.dijkstraCalls = o.dijkstraCalls]
        ELSE /\ m_DijkstraStartVertices' = o.startVertices
             /\ m_DijkstraOutputRoutes' = o.outputRoutes
             /\ m_DijkstraShortestDistances' = o.shortestDistances
             /\ shortestDistance' = o.shortestDistance
             /\ outputRoute' = o.outputRoute
             /\ rootedAt' = rootedAt \cup
                   {v \in DOMAIN o.startVertices : v \notin DOMAIN m_DijkstraStartVertices}
             /\ call' = [status |-> o.status, startVertex |-> startVertex,
                         endVertex |-> endVertex,
                         preferStartVertex |-> preferStartVertex,
                         fromStartVertex |-> o.fromStartVertex,
                         dijkstraCalls |-> o.dijkstraCalls,
                         slotsBefore |-> Len(m_DijkstraOutputRoutes),
                         cachedBefore |-> DOMAIN m_DijkstraStartVertices,
                         rootedBefore |-> rootedAt,
                         previous |-> Previous(startVertex, endVertex, preferStartVertex)]
    /\ GraphAfterQuery(startVertex, endVertex)
    /\ UNCHANGED <<inputVars, instance, dijkstraRun, callers>>

\* The labels the owner of the graph passes: those of its vertices
QueryLabels == Range(m_InternalToExternal)

\* A graph constructed from one of the square matrices, before any call
InitGraph ==
    \E n \in 2..MaxOrder : \E matrix \in SquareMatrices(n) :
    \E labels \in LabelLists(n) :
    \E g \in CGraphOutcomes(matrix, labels) :
        /\ g.status = "constructed"
        /\ inputMatrix = matrix
        /\ inputLabels = labels
        /\ construction = [status |-> g.status,
                           distanceMatrixType |-> g.distanceMatrixType]
        /\ m_Order = g.m_Order
        /\ m_DistanceMatrix = g.m_DistanceMatrix
        /\ m_AdjacencyMatrix = g.m_AdjacencyMatrix
        /\ m_ExternalToInternal = g.m_ExternalToInternal
        /\ m_InternalToExternal = g.m_InternalToExternal
        /\ m_DijkstraStartVertices = <<>>
        /\ m_DijkstraOutputRoutes = <<>>
        /\ m_DijkstraShortestDistances = <<>>
        /\ shortestDistance = 0
        /\ outputRoute = <<>>
        /\ call = NoCall
        /\ rootedAt = {}
        /\ instance = FirstInstance
        /\ dijkstraRun = NoRun

Init == InitGraph /\ callers = NoCallers

Next ==
    \E startVertex \in QueryLabels : \E endVertex \in QueryLabels :
    \E preferStartVertex \in BOOLEAN :
        ShortestDistance(startVertex, endVertex, preferStartVertex)

Spec == Init /\ [][Next]_vars

NextDijkstra ==
    \/ \E startVertex \in Vertices : BeginRun(startVertex)
    \/ Iteration
    \/ StoreRun

\* Runs of InternalDijkstra, one after another, for the vertices of a graph
SpecDijkstra == Init /\ [][NextDijkstra]_vars

\* A label no labelling of the model contains
UnknownLabels == {10 * (MaxOrder + 1)}

\* Calls in which the owner may also pass a label that the graph does not
\* have
NextAnyLabel ==
    \E startVertex \in QueryLabels \cup UnknownLabels :
    \E endVertex \in QueryLabels \cup UnknownLabels :
    \E preferStartVertex \in BOOLEAN :
        ShortestDistance(startVertex, endVertex, preferStartVertex)

\* The graphs of Init in which every two vertices are joined by an edge
InitComplete ==
    /\ Init
    /\ \A i, j \in Vertices : i # j => m_DistanceMatrix[i][j] >= 0

SpecAnyLabel == InitComplete /\ [][NextAnyLabel]_vars

\* ------------------------------------------------------------------------
\* Two callers of one graph without a lock.  Each operation on a container
\* of the cache (count, find, push_back, operator[]) is one step, and the
\* steps of the two callers interleave in any order

Callers == {"A", "B"}

\* Calls each caller makes
MaxCalls == 1

\* A caller between calls, with the locals of InternalShortestDistance and
\* InternalDijkstra and its own two output variables
IdleCaller ==
    [pc |-> "idle", calls |-> 0, startVertex |-> 0, endVertex |-> 0,
     preferStartVertex |-> FALSE, fromStartVertex |-> FALSE, root |-> 0,
     computed |-> FALSE, outputRoutes |-> <<>>, shortestDistances |-> <<>>,
     shortestDistance |-> 0, outputRoute |-> <<>>, overlapped |-> FALSE]

InCall(c) == callers[c].pc \notin {"idle", "crash"}

NoCrash == \A c \in Callers : callers[c].pc # "crash"

\* push_back with a test that the source has no slot yet
Appended_IfAbsent(list, vector, root) ==
    IF root \in DOMAIN m_DijkstraStartVertices THEN list ELSE Append(list, vector)

\* push_back of lines 426 and 427: the vector is appended whatever the
\* cache holds for the source
Appended(list, vector, root) == Append(list, vector)

\* Lines 209-210 and 256-270: the labels are translated and the two
\* count() tests decide which tree the call uses and whether it goes on
\* to InternalDijkstra
BeginCall(c, startVertex, endVertex, preferStartVertex) ==
    /\ NoCrash
    /\ callers[c].pc = "idle"
    /\ callers[c].calls < MaxCalls
    /\ LET s == m_ExternalToInternal[startVertex]
           t == m_ExternalToInternal[endVertex]
           tree == ChooseTree(s, t, preferStartVertex)
           overlaps == \E d \in Callers \ {c} : InCall(d)
       IN  callers' =
               [d \in Callers |->
                   IF d = c
                   THEN [callers[c] EXCEPT
                            !.pc = IF tree.dijkstraCalls = <<>> THEN "unwind" ELSE "find",
                            !.calls = @ + 1,
                            !.startVertex = s,
                            !.endVertex = t,
                            !.preferStartVertex = preferStartVertex,
                            !.fromStartVertex = tree.fromStartVertex,
                            !.root = IF tree.fromStartVertex THEN s ELSE t,
                            !.computed = FALSE,
                            !.overlapped = @ \/ overlaps]
                   ELSE [callers[d] EXCEPT !.overlapped = @ \/ InCall(d)]]
    /\ UNCHANGED <<inputVars, graphVars, cacheVars, callVars, instance, dijkstraRun>>

\* Lines 348-423: the range test, the find() of line 356, and on a miss
\* the computation of the two vectors, which are locals
FindOrCompute(c) ==
    /\ NoCrash
    /\ callers[c].pc = "find"
    /\ callers[c].root \in Vertices
    /\ IF callers[c].root \in DOMAIN m_DijkstraStartVertices
       THEN callers' = [callers EXCEPT ![c].pc = "unwind"]
       ELSE \E r \in DijkstraRuns(callers[c].root) :
               IF r.status = "crash"
               THEN callers' = [callers EXCEPT ![c].pc = "crash"]
               ELSE callers' = [callers EXCEPT
                                   ![c].pc = "push_routes",
                                   ![c].computed = TRUE,
                                   ![c].outputRoutes = r.outputRoutes,
                                   ![c].shortestDistances = r.shortestDistances]
    /\ UNCHANGED <<inputVars, graphVars, cacheVars, callVars, instance, dijkstraRun>>

\* Line 426
PushRoutes(c) ==
    /\ NoCrash
    /\ callers[c].pc = "push_routes"
    /\ m_DijkstraOutputRoutes' =
           Appended(m_DijkstraOutputRoutes, callers[c].outputRoutes, callers[c].root)
    /\ callers' = [callers EXCEPT ![c].pc = "push_distances"]
    /\ UNCHANGED <<inputVars, graphVars, m_DijkstraStartVertices,
                   m_DijkstraShortestDistances, callVars, instance, dijkstraRun>>

\* Line 427
PushDistances(c) ==
    /\ NoCrash
    /\ callers[c].pc = "push_distances"
    /\ m_DijkstraShortestDistances' =
           Appended(m_DijkstraShortestDistances, callers[c].shortestDistances,
                    callers[c].root)
    /\ callers' = [callers EXCEPT ![c].pc = "set_index"]
    /\ UNCHANGED <<inputVars, graphVars, m_DijkstraStartVertices,
                   m_DijkstraOutputRoutes, callVars, instance, dijkstraRun>>

\* Line 428: the slot index of the source becomes the last index of
\* m_DijkstraOutputRoutes as it is now
SetIndex(c) ==
    /\ NoCrash
    /\ callers[c].pc = "set_index"
    /\ m_DijkstraStartVertices' =
           [v \in DOMAIN m_DijkstraStartVertices \cup {callers[c].root} |->
               IF v = callers[c].root THEN Len(m_DijkstraOutputRoutes) - 1
               ELSE m_DijkstraStartVertices[v]]
    /\ rootedAt' = rootedAt \cup {callers[c].root}
    /\ callers' = [callers EXCEPT ![c].pc = "unwind"]
    /\ UNCHANGED <<inputVars, graphVars, m_DijkstraOutputRoutes,
                   m_DijkstraShortestDistances, shortestDistance, outputRoute, call,
                   instance, dijkstraRun>>

\* Lines 272-308 and 216: the slot index is read from the map, the route
\* is walked in the parent vector of that slot and the distance read from
\* its distance vector.  When the other caller has appended a parent
\* vector and not yet the distance vector, the index can be one that
\* m_DijkstraShortestDistances does not have yet: that read is out of
\* bounds and crashes or finds some double.  When the slot of the index
\* holds the other caller's tree the walk can go round for ever.  A call
\* that does not end normally leaves its caller at "crash"
UnwindCall(c) ==
    /\ NoCrash
    /\ callers[c].pc = "unwind"
    /\ LET me == callers[c]
           other == IF me.fromStartVertex THEN me.endVertex ELSE me.startVertex
           index == m_DijkstraStartVertices[me.root]
           distances ==
               IF index + 1 \in DOMAIN m_DijkstraShortestDistances
               THEN {ReadDistance(m_DijkstraShortestDistances[index + 1],
                                  me.fromStartVertex, me.startVertex, me.endVertex)}
               ELSE GarbageDoubles
           crashed == [callers EXCEPT ![c].pc = "crash"]
       IN  \/ /\ index + 1 \notin DOMAIN m_DijkstraShortestDistances
              /\ callers' = crashed
           \/ \E w \in Unwind(<<other>>, me.root, m_DijkstraOutputRoutes[index + 1],
                               FALSE) :
              \E d \in distances :
                  IF w.status # "done"
                  THEN callers' = crashed
                  ELSE callers' =
                           [callers EXCEPT
                               ![c].pc = "idle",
                               ![c].outputRoutes = <<>>,
                               ![c].shortestDistances = <<>>,
                               ![c].shortestDistance = d,
                               ![c].outputRoute =
                                   InternalToExternalRoute(
                                       IF me.fromStartVertex THEN Reverse(w.route)
                                       ELSE w.route).vertices]
    /\ UNCHANGED <<inputVars, graphVars, cacheVars, callVars, instance, dijkstraRun>>

NextConcurrent ==
    \E c \in Callers :
        \/ \E startVertex \in QueryLabels : \E endVertex \in QueryLabels :
           \E preferStartVertex \in BOOLEAN :
               BeginCall(c, startVertex, endVertex, preferStartVertex)
        \/ FindOrCompute(c)
        \/ PushRoutes(c)
        \/ PushDistances(c)
        \/ SetIndex(c)
        \/ UnwindCall(c)

InitConcurrent ==
    /\ InitGraph
    /\ \A i, j \in Vertices : i # j => m_DistanceMatrix[i][j] >= 0
    /\ callers = [c \in Callers |-> IdleCaller]

\* Complete graphs with two callers
SpecConcurrent == InitConcurrent /\ [][NextConcurrent]_vars

\* ------------------------------------------------------------------------
\* The owner replaces its graph: the CGraph object is destroyed and a new
\* one is constructed

\* CGraph objects an owner builds, one after another
MaxInstances == 2

\* The three cache members of a new object if they were static members,
\* shared by all objects of the class
FreshCache_Shared ==
    [startVertices |-> m_DijkstraStartVertices,
     outputRoutes |-> m_DijkstraOutputRoutes,
     shortestDistances |-> m_DijkstraShortestDistances]

\* The three cache members of a new object: the constructor names none of
\* them in its initialiser list or its body (lines 30-112), so each is
\* default-constructed, an empty map and two empty vectors
FreshCache ==
    [startVertices |-> <<>>, outputRoutes |-> <<>>, shortestDistances |-> <<>>]

NewGraph ==
    /\ call.status # "crash"
    /\ instance.number < MaxInstances
    /\ \E n \in 2..MaxOrder : \E matrix \in SquareMatrices(n) :
       \E labels \in LabelLists(n) :
       \E g \in CGraphOutcomes(matrix, labels) :
           /\ g.status = "constructed"
           /\ \A i, j \in 0..(n - 1) : i # j => g.m_DistanceMatrix[i][j] >= 0
           /\ inputMatrix' = matrix
           /\ inputLabels' = labels
           /\ construction' = [status |-> g.status,
                               distanceMatrixType |-> g.distanceMatrixType]
           /\ m_Order' = g.m_Order
           /\ m_DistanceMatrix' = g.m_DistanceMatrix
           /\ m_AdjacencyMatrix' = g.m_AdjacencyMatrix
           /\ m_ExternalToInternal' = g.m_ExternalToInternal
           /\ m_InternalToExternal' = g.m_InternalToExternal
    /\ m_DijkstraStartVertices' = FreshCache.startVertices
    /\ m_DijkstraOutputRoutes' = FreshCache.outputRoutes
    /\ m_DijkstraShortestDistances' = FreshCache.shortestDistances
    /\ call' = NoCall
    /\ rootedAt' = {}
    /\ instance' = [number |-> instance.number + 1,
                    slotsDestroyed |->
                        instance.slotsDestroyed + Len(m_DijkstraOutputRoutes)]
    /\ UNCHANGED <<shortestDistance, outputRoute, dijkstraRun, callers>>

NextInstances ==
    \/ Next
    \/ NewGraph

\* Complete graphs, queried and replaced
SpecInstances == InitComplete /\ [][NextInstances]_vars

\* ------------------------------------------------------------------------
\* Construction as an operation: the owner supplies a matrix and a label
\* list and the constructor runs once

\* Row lengths of the three accepted shapes, for n rows
SquareLengths(n) == [i \in 0..(n - 1) |-> n]

LowerLengths(n) == [i \in 0..(n - 1) |-> i + 1]

UpperLengths(n) == [i \in 0..(n - 1) |-> n - i]

AcceptedLengths(n) == {SquareLengths(n), LowerLengths(n), UpperLengths(n)}

\* Any row lengths, for n rows
AnyLengths(n) == [0..(n - 1) -> 0..(MaxOrder + 1)]

\* The supplied positions of a matrix with these row lengths
Positions(lengths) ==
    {p \in (DOMAIN lengths) \X (0..MaxOrder) : p[2] < lengths[p[1]]}

\* No position of any matrix
NoPosition == <<-1, -1>>

\* The entries run through the values of fill along every row and every
\* column, so that neighbouring entries can differ
Fills == [0..(MaxWeight + 1) -> Weights]

ZeroFill == [k \in 0..(MaxWeight + 1) |-> 0]

\* The matrix with these row lengths and entries, and -2 at position bad
FilledMatrix(lengths, fill, bad) ==
    [i \in DOMAIN lengths |-> [k \in 0..(lengths[i] - 1) |->
        IF <<i, k>> = bad THEN -2 ELSE fill[(i + k) % (MaxWeight + 2)]]]

\* Label lists for a matrix of n rows: of length n - 1, n and n + 1,
\* pairwise distinct (r = 0) or with the first label repeated at index r
LabelInputs(n) ==
    {[i \in 0..(m - 1) |-> IF i = r THEN 10 * m ELSE 10 * (m - i)] :
        m \in {k \in (n - 1)..(n + 1) : k >= 0}, r \in 0..MaxOrder}

\* The arguments the model constructs a graph from: every shape with valid
\* entries; the accepted shapes with every fill, with an invalid entry at
\* every position, and with every label list
ConstructorInputs ==
    UNION {
        {[matrix |-> FilledMatrix(lengths, ZeroFill, NoPosition), labels |-> labels] :
            lengths \in AnyLengths(n), labels \in LabelLists(n)}
        \cup
        UNION {
            {[matrix |-> FilledMatrix(lengths, fill, NoPosition), labels |-> labels] :
                fill \in Fills, labels \in LabelLists(n)}
            \cup
            {[matrix |-> FilledMatrix(lengths, ZeroFill, bad), labels |-> labels] :
                bad \in Positions(lengths), labels \in LabelLists(n)}
            \cup
            {[matrix |-> FilledMatrix(lengths, ZeroFill, NoPosition), labels |-> labels] :
                labels \in LabelInputs(n)} :
            lengths \in AcceptedLengths(n)} :
        n \in 1..MaxOrder}

\* Before the constructor has run
NotConstructed == [status |-> "pending", distanceMatrixType |-> "undefined"]

\* No graph: before construction, and after a construction that failed
Pending(in) ==
    /\ inputMatrix = in.matrix
    /\ inputLabels = in.labels
    /\ construction = NotConstructed
    /\ m_Order = 0
    /\ m_DistanceMatrix = <<>>
    /\ m_AdjacencyMatrix = <<>>
    /\ m_ExternalToInternal = <<>>
    /\ m_InternalToExternal = <<>>
    /\ m_DijkstraStartVertices = <<>>
    /\ m_DijkstraOutputRoutes = <<>>
    /\ m_DijkstraShortestDistances = <<>>
    /\ shortestDistance = 0
    /\ outputRoute = <<>>
    /\ call = NoCall
    /\ rootedAt = {}
    /\ instance = FirstInstance
    /\ dijkstraRun = NoRun
    /\ callers = NoCallers

InitConstruction == \E in \in ConstructorInputs : Pending(in)

\* CGraph::CGraph run on the arguments: it throws, crashes, or leaves the
\* members of a graph
Construct ==
    /\ construction = NotConstructed
    /\ \E g \in CGraphOutcomes(inputMatrix, inputLabels) :
        /\ construction' = [status |-> g.status,
                            distanceMatrixType |-> g.distanceMatrixType]
        /\ IF g.status = "constructed"
           THEN /\ m_Order' = g.m_Order
                /\ m_DistanceMatrix' = g.m_DistanceMatrix
                /\ m_AdjacencyMatrix' = g.m_AdjacencyMatrix
                /\ m_ExternalToInternal' = g.m_ExternalToInternal
                /\ m_InternalToExternal' = g.m_InternalToExternal
           ELSE UNCHANGED graphVars
    /\ UNCHANGED <<inputMatrix, inputLabels, cacheVars, callVars, instance, dijkstraRun, callers>>

NextConstruction == Construct

SpecConstruction == InitConstruction /\ [][NextConstruction]_vars

\* Numbers of rows that do not fit an unsigned int
TooManyRows == {UINT_MAX + 1, UINT_MAX + 2}

\* Rows of a matrix that is too large: empty, one valid entry, one invalid
\* entry, two entries
LargeRows ==
    {<<>>, [k \in 0..0 |-> 0], [k \in 0..0 |-> -2], [k \in 0..1 |-> 0]}

\* Matrices of too many rows, all alike, with as many labels as
\* (unsigned int)distanceMatrix.size() of line 31 makes the order
LargeInputs ==
    UNION {
        {[matrix |-> [i \in 0..(n - 1) |-> row], labels |-> labels] :
            row \in LargeRows, labels \in LabelLists(n % (UINT_MAX + 1))} :
        n \in TooManyRows}

InitAnySize == \E in \in ConstructorInputs \cup LargeInputs : Pending(in)

\* The constructor run once on a matrix of any number of rows
SpecAnySize == InitAnySize /\ [][NextConstruction]_vars

\* Arguments that can break several rules at once: rows of any lengths,
\* valid entries or an invalid entry at any one position, and every label
\* list; and the matrices of too many rows with every label list
SeveralErrorInputs ==
    UNION {
        UNION {
            {[matrix |-> FilledMatrix(lengths, ZeroFill, bad), labels |-> labels] :
                bad \in Positions(lengths) \cup {NoPosition},
                labels \in LabelInputs(n)} :
            lengths \in AnyLengths(n)} :
        n \in 1..MaxOrder}
    \cup
    UNION {
        {[matrix |-> [i \in 0..(n - 1) |-> row], labels |-> labels] :
            row \in LargeRows, labels \in LabelInputs(n % (UINT_MAX + 1))} :
        n \in TooManyRows}

InitSeveralErrors == \E in \in SeveralErrorInputs : Pending(in)

\* The constructor run once on arguments that can break several rules
SpecSeveralErrors == InitSeveralErrors /\ [][NextConstruction]_vars

\* ------------------------------------------------------------------------
\* Vocabulary of the properties

\* The data model: there is an edge from u to v when u # v and entry (u,v)
\* is not the sentinel
Edge(u, v) == u # v /\ m_DistanceMatrix[u][v] >= 0

\* Sequences of distinct vertices
SimpleRoutes ==
    UNION {{r \in [1..k -> Vertices] : \A a, b \in 1..k : a # b => r[a] # r[b]} :
           k \in 1..m_Order}

\* The paths from s to t that visit no vertex twice
Paths(s, t) ==
    {r \in SimpleRoutes :
        /\ r[1] = s
        /\ r[Len(r)] = t
        /\ \A k \in 1..(Len(r) - 1) : Edge(r[k], r[k + 1])}

RECURSIVE Weight(_)
Weight(r) ==
    IF Len(r) < 2 THEN 0
    ELSE m_DistanceMatrix[r[1]][r[2]] + Weight(Tail(r))

PathExists(s, t) == Paths(s, t) # {}

MinimumWeight(s, t) ==
    LET ws == {Weight(r) : r \in Paths(s, t)}
    IN  CHOOSE w \in ws : \A x \in ws : w <= x

Called == call.status # "none"

Returned == call.status = "returned"

\* The call ended without the process crashing
Ended == call.status \in {"returned", "out_of_range"}

iStartVertex == m_ExternalToInternal[call.startVertex]

iEndVertex == m_ExternalToInternal[call.endVertex]

\* The returned route in internal indices
iRoute == [k \in 1..Len(outputRoute) |-> m_ExternalToInternal[outputRoute[k]]]

\* The slot of a cached source
DistancesOf(v) == m_DijkstraShortestDistances[m_DijkstraStartVertices[v] + 1]

ParentsOf(v) == m_DijkstraOutputRoutes[m_DijkstraStartVertices[v] + 1]

\* ------------------------------------------------------------------------
\* C1.  For labels s # t with t reachable from s, a query that returns
\* gives as distance the minimum total edge weight over the paths from s
\* to t, whichever tree it used.
C1_DistanceIsMinimumWeight ==
    (Returned /\ iStartVertex # iEndVertex /\ PathExists(iStartVertex, iEndVertex))
        => shortestDistance = MinimumWeight(iStartVertex, iEndVertex)

\* C2.  The route a query returns between two different vertices follows
\* edges of the graph from each vertex to the next, and the weights of
\* those edges add up to the returned distance.
C2_RouteFollowsEdges ==
    (Returned /\ iStartVertex # iEndVertex)
        => /\ \A k \in 1..(Len(iRoute) - 1) : Edge(iRoute[k], iRoute[k + 1])
           /\ Weight(iRoute) = shortestDistance

\* C3.  The route a query returns is made of external labels, begins with
\* the start label and ends with the end label, whichever endpoint's tree
\* was used.
C3_RouteRunsStartToEnd ==
    Returned
        => /\ Len(outputRoute) >= 1
           /\ outputRoute[1] = call.startVertex
           /\ outputRoute[Len(outputRoute)] = call.endVertex
           /\ \A k \in 1..Len(outputRoute) : outputRoute[k] \in Range(m_InternalToExternal)

\* A query answered from the tree rooted at its start vertex, whose route
\* passes through a third vertex and had to be reversed
C3_Witness ==
    /\ Returned
    /\ call.fromStartVertex
    /\ Len(outputRoute) >= 3
    /\ outputRoute[1] = call.startVertex

C5_Step ==
    call'.status # "crash" =>
        /\ Len(m_DijkstraOutputRoutes') >= Len(m_DijkstraOutputRoutes)
        /\ Len(m_DijkstraShortestDistances') >= Len(m_DijkstraShortestDistances)
        /\ \A k \in 1..Len(m_DijkstraOutputRoutes) :
              m_DijkstraOutputRoutes'[k] = m_DijkstraOutputRoutes[k]
        /\ \A k \in 1..Len(m_DijkstraShortestDistances) :
              m_DijkstraShortestDistances'[k] = m_DijkstraShortestDistances[k]
        /\ \A v \in DOMAIN m_DijkstraStartVertices :
              /\ v \in DOMAIN m_DijkstraStartVertices'
              /\ m_DijkstraStartVertices'[v] = m_DijkstraStartVertices[v]

C5_CacheOnlyGrows == [][C5_Step]_vars

\* A tree was computed and stored when two slots already existed
C5_Witness ==
    /\ Ended
    /\ call.slotsBefore >= 2
    /\ call.dijkstraCalls # <<>>
    /\ Len(m_DijkstraOutputRoutes) = call.slotsBefore + 1

\* C6.  Idempotence: when a call that returned is followed at once by a
\* call with the same three arguments, the second call returns the same
\* distance and the same route, calls InternalDijkstra for no vertex and
\* leaves the number of cache slots as it was.
C6_Step ==
    (/\ Returned
     /\ call'.status # "none"
     /\ call'.startVertex = call.startVertex
     /\ call'.endVertex = call.endVertex
     /\ call'.preferStartVertex = call.preferStartVertex)
        => /\ call'.status = "returned"
           /\ shortestDistance' = shortestDistance
           /\ outputRoute' = outputRoute
           /\ call'.dijkstraCalls = <<>>
           /\ Len(m_DijkstraOutputRoutes') = Len(m_DijkstraOutputRoutes)
           /\ Len(m_DijkstraShortestDistances') = Len(m_DijkstraShortestDistances)

C6_Idempotent == [][C6_Step]_vars

\* The second of two identical calls between two different vertices has
\* returned, with a route through a third vertex
C6_Witness ==
    /\ Returned
    /\ call.previous = "same"
    /\ iStartVertex # iEndVertex
    /\ Len(outputRoute) >= 3

\* C7.  Cache reuse: once a tree rooted at b has been stored, every later
\* call (c, b, p) that ends uses the tree rooted at b, calls
\* InternalDijkstra for no vertex and stores no tree, whether or not a
\* tree rooted at c exists and whatever p is.
C7_EndTreeIsReused ==
    (Ended /\ iEndVertex \in call.rootedBefore)
        => /\ ~call.fromStartVertex
           /\ call.dijkstraCalls = <<>>
           /\ rootedAt = call.rootedBefore
           /\ iEndVertex \in DOMAIN m_DijkstraStartVertices
           /\ Returned => shortestDistance = DistancesOf(iEndVertex)[iStartVertex]

\* A call (c, b, TRUE) that returned, made when a tree rooted at b and a
\* tree rooted at a third vertex had been stored and none rooted at c
C7_Witness ==
    /\ Returned
    /\ call.preferStartVertex
    /\ iStartVertex # iEndVertex
    /\ iEndVertex \in call.rootedBefore
    /\ iStartVertex \notin call.rootedBefore
    /\ Cardinality(call.rootedBefore) >= 2

\* C8.  A call on two different vertices that no path joins in either
\* direction, answered from a tree that was already stored and whose root
\* has a neighbour, ends with an error the caller can tell from success:
\* the walk stops at the no-parent value, so the call neither crashes nor
\* returns.
C8_DisconnectedPairIsReported ==
    (/\ Called
     /\ call.dijkstraCalls = <<>>
     /\ \E v \in Vertices :
            Edge(IF call.fromStartVertex THEN iStartVertex ELSE iEndVertex, v)
     /\ iStartVertex # iEndVertex
     /\ ~PathExists(iStartVertex, iEndVertex)
     /\ ~PathExists(iEndVertex, iStartVertex))
        => call.status \notin {"crash", "returned"}

\* C9.  On a matrix whose entries are all non-negative, a call (v, v)
\* returns distance 0 and the route [v].
C9_SelfDistanceIsZero ==
    (/\ Called
     /\ call.startVertex = call.endVertex
     /\ \A i, j \in Vertices : m_DistanceMatrix[i][j] >= 0)
        => /\ Returned
           /\ shortestDistance = 0
           /\ outputRoute = <<call.startVertex>>

\* C10.  On a symmetric matrix the distance of a call that returned is the
\* one every tree stored for either of its two vertices holds for the pair;
\* stored trees never change, so all calls (s, t) and (t, s) that return
\* give one distance, in whatever order they come and whatever the cache
\* holds.  In particular a call (s, t) that returned and a call (t, s) that
\* follows it at once and returns give equal distances, whatever the two
\* preferStartVertex values.
Symmetric ==
    \A i, j \in Vertices : m_DistanceMatrix[i][j] = m_DistanceMatrix[j][i]

C10_AgreesWithTrees ==
    (Symmetric /\ Returned) =>
        /\ iStartVertex \in DOMAIN m_DijkstraStartVertices
               => DistancesOf(iStartVertex)[iEndVertex] = shortestDistance
        /\ iEndVertex \in DOMAIN m_DijkstraStartVertices
               => DistancesOf(iEndVertex)[iStartVertex] = shortestDistance

C10_Step ==
    (/\ Symmetric
     /\ Returned
     /\ call'.status = "returned"
     /\ call'.startVertex = call.endVertex
     /\ call'.endVertex = call.startVertex)
        => shortestDistance' = shortestDistance

C10_SymmetricDistance == []C10_AgreesWithTrees /\ [][C10_Step]_vars

\* On a symmetric matrix a call (t, s) has returned right after a call
\* (s, t), each answered from a different tree, along a route through a
\* third vertex
C10_Witness ==
    /\ Symmetric
    /\ Returned
    /\ call.previous = "swapped"
    /\ iStartVertex # iEndVertex
    /\ {iStartVertex, iEndVertex} \subseteq call.cachedBefore
    /\ Len(outputRoute) >= 3

\* C12.  Every stored distance vector of a source s that has a neighbour
\* holds, for every vertex v, the minimum total weight of a path from s
\* to v when v can be reached from s (0 for v = s) and -1 when it cannot.
C12_TreeHoldsMinimumWeights ==
    \A s \in DOMAIN m_DijkstraStartVertices :
        (\E u \in Vertices : Edge(s, u))
            => \A v \in Vertices :
                  DistancesOf(s)[v] =
                      IF PathExists(s, v) THEN MinimumWeight(s, v) ELSE -1

\* C13.  The single-source computation ends normally for every source,
\* one with no adjacent vertex included: a call (v, v) that runs it, whose
\* route walk is empty, returns or ends with an error and the process
\* does not crash.
C13_ComputationEnds ==
    (/\ Called
     /\ call.dijkstraCalls # <<>>
     /\ iStartVertex = iEndVertex)
        => call.status \in {"returned", "out_of_range", "Dijkstra_InvalidStartVertex"}

\* The last call passed a label that the graph does not have
UnknownLabelPassed ==
    \/ call.startVertex \notin DOMAIN m_ExternalToInternal
    \/ call.endVertex \notin DOMAIN m_ExternalToInternal

\* C14.  A call in which the start label or the end label is not a label
\* of the graph ends with the out-of-range error of the label lookup,
\* calls InternalDijkstra for no vertex, and leaves the cache and the
\* caller's output distance and route as they were.
C14_Step ==
    UnknownLabelPassed' =>
        /\ call'.status = "out_of_range"
        /\ call'.dijkstraCalls = <<>>
        /\ UNCHANGED <<cacheVars, shortestDistance, outputRoute, rootedAt>>

C14_UnknownLabelRejected == [][C14_Step]_vars

\* A call with a known start label and an unknown end label was rejected
\* when two trees were stored and the caller's variables held the route
\* and distance of an earlier call
C14_Witness ==
    /\ Called
    /\ call.startVertex \in DOMAIN m_ExternalToInternal
    /\ call.endVertex \notin DOMAIN m_ExternalToInternal
    /\ call.status = "out_of_range"
    /\ Len(m_DijkstraOutputRoutes) >= 2
    /\ Len(outputRoute) >= 2
    /\ shortestDistance > 0

\* ------------------------------------------------------------------------
\* Vocabulary of the properties of construction

ConstructorRan == construction.status # "pending"

Constructed == construction.status = "constructed"

Rows == Size(inputMatrix)

Lengths == [i \in DOMAIN inputMatrix |-> Size(inputMatrix[i])]

ValidEntry(x) == x >= 0 \/ x = -1

ValidEntries == \A p \in Positions(Lengths) : ValidEntry(inputMatrix[p[1]][p[2]])

\* The shape the classification rule gives the input, in its priority order
ShapeByRule ==
    IF Lengths = SquareLengths(Rows) THEN "square"
    ELSE IF Lengths = LowerLengths(Rows) THEN "lowerTriangular"
    ELSE IF Lengths = UpperLengths(Rows) THEN "upperTriangular"
    ELSE "badShape"

\* C15.  A matrix with valid entries is classified square if every row has
\* length n, otherwise lower-triangular if row i has length i + 1 for every
\* i, otherwise upper-triangular if row i has length n - i for every i, and
\* otherwise construction fails with the bad-shape error.
C15_ShapeClassification ==
    (ConstructorRan /\ ValidEntries)
        => /\ construction.distanceMatrixType = ShapeByRule
           /\ ShapeByRule = "badShape"
                  => construction.status = "InputDistMat_NotSquareMatrix"

\* No graph was built
NoGraph == m_Order = 0 /\ m_DistanceMatrix = <<>> /\ m_AdjacencyMatrix = <<>>

\* C16.  Construction from a matrix of accepted shape fails with the
\* invalid-elements error, and builds no graph, when some supplied entry
\* (diagonal included) is negative and not -1, and never fails with that
\* error when every entry is >= 0 or -1.
C16_InvalidElementsRejected ==
    (ConstructorRan /\ ShapeByRule # "badShape")
        => /\ ~ValidEntries
                => construction.status = "InputDistMat_InvalidElements" /\ NoGraph
           /\ ValidEntries => construction.status # "InputDistMat_InvalidElements"

LabelsRepeat ==
    \E i, k \in DOMAIN inputLabels : i # k /\ inputLabels[i] = inputLabels[k]

\* C17.  Construction from a matrix of accepted shape with valid entries
\* fails with the bad-size error when the number of labels differs from
\* the number of rows, fails with the repeated-label error when the
\* numbers agree and a label is repeated, and succeeds only with exactly
\* one label per row, all different.
C17_LabelsFormBijection ==
    (ConstructorRan /\ ShapeByRule # "badShape" /\ ValidEntries)
        => /\ Size(inputLabels) # Rows
                => construction.status = "InputVertexLabels_BadSize"
           /\ (Size(inputLabels) = Rows /\ LabelsRepeat)
                => construction.status = "InputVertexLabels_RepeatedLabel"
           /\ Constructed => (Size(inputLabels) = Rows /\ ~LabelsRepeat)

\* C18.  In every graph that was constructed, from a square, a
\* lower-triangular or an upper-triangular matrix, vertex i is adjacent to
\* vertex j exactly when i # j and entry (i, j) of the normalised distance
\* matrix is not negative.
C18_AdjacencyMatchesDistances ==
    Constructed
        => \A i, j \in Vertices :
              m_AdjacencyMatrix[i][j] <=> (i # j /\ m_DistanceMatrix[i][j] >= 0)

\* m is a matrix of the order of the input
IsSquareOfOrder(m) ==
    /\ DOMAIN m = 0..(Rows - 1)
    /\ \A i \in DOMAIN m : DOMAIN m[i] = 0..(Rows - 1)

IsSymmetric(m) == \A i, j \in DOMAIN m : m[i][j] = m[j][i]

C20_UpperTriangularNormalised ==
    (ConstructorRan /\ ShapeByRule = "upperTriangular" /\ Rows >= 2)
        => /\ construction.status # "crash"
           /\ Constructed
                => /\ m_Order = Rows
                   /\ IsSquareOfOrder(m_DistanceMatrix)
                   /\ \A i, j \in 0..(Rows - 1) :
                          i <= j => m_DistanceMatrix[i][j] = inputMatrix[i][j - i]
                   /\ IsSymmetric(m_DistanceMatrix)

\* The square symmetric matrix a triangular input stands for
SymmetricSquare ==
    [i \in 0..(Rows - 1) |-> [j \in 0..(Rows - 1) |->
        IF ShapeByRule = "lowerTriangular"
        THEN IF j <= i THEN inputMatrix[i][j] ELSE inputMatrix[j][i]
        ELSE IF i <= j THEN inputMatrix[i][j - i] ELSE inputMatrix[j][i - j]]]

\* C11.  Construction from a triangular matrix with valid entries and one
\* label per row, all different, leaves the graph that construction from
\* the square symmetric matrix it stands for leaves, with the same labels:
\* the same order, distances, adjacency and label maps, hence the same
\* answer to every sequence of queries.
C11_TriangularEqualsSquare ==
    (/\ ConstructorRan
     /\ Rows >= 2
     /\ ShapeByRule \in {"lowerTriangular", "upperTriangular"}
     /\ ValidEntries
     /\ Size(inputLabels) = Rows
     /\ ~LabelsRepeat)
        => LET square == CGraph(SymmetricSquare, inputLabels, <<>>, <<>>)
           IN  /\ Constructed
               /\ m_Order = square.m_Order
               /\ m_DistanceMatrix = square.m_DistanceMatrix
               /\ m_AdjacencyMatrix = square.m_AdjacencyMatrix
               /\ m_ExternalToInternal = square.m_ExternalToInternal
               /\ m_InternalToExternal = square.m_InternalToExternal

\* ------------------------------------------------------------------------
\* C21.  No call of ShortestDistance, whether it returns or ends with an
\* error, changes the order, the distance matrix, the adjacency matrix or
\* either label map of the graph: of the members, a call changes at most
\* the three that hold the cache.
C21_QueriesKeepGraph ==
    [][UNCHANGED <<m_Order, m_DistanceMatrix, m_AdjacencyMatrix,
                   m_ExternalToInternal, m_InternalToExternal>>]_vars

\* A call with an unknown start label was rejected after calls that
\* returned had stored a tree for every vertex of a graph of order three
C21_Witness ==
    /\ call.status = "out_of_range"
    /\ call.startVertex \notin DOMAIN m_ExternalToInternal
    /\ m_Order = 3
    /\ DOMAIN m_DijkstraStartVertices = Vertices

\* C22.  In every graph that was constructed the label translation is a
\* bijection between the supplied labels and 0..order-1: translating a
\* supplied label to its index and back gives the label, translating an
\* index below the order to its label and back gives the index, the label
\* of index i is the i-th label of the list given to the constructor, and
\* translating an index that is not below the order ends with the
\* out-of-range error.
C22_LabelTranslationIsBijection ==
    Constructed
        => /\ \A k \in DOMAIN inputLabels :
                  LET i == ExternalToInternal(inputLabels[k])
                  IN  /\ i.status = "returned"
                      /\ i.value \in 0..(m_Order - 1)
                      /\ InternalToExternal(i.value) =
                             [status |-> "returned", value |-> inputLabels[k]]
           /\ \A i \in 0..(m_Order - 1) :
                  LET l == InternalToExternal(i)
                  IN  /\ l = [status |-> "returned", value |-> inputLabels[i]]
                      /\ ExternalToInternal(l.value) =
                             [status |-> "returned", value |-> i]
           /\ \A i \in m_Order..UINT_MAX :
                  InternalToExternal(i).status = "out_of_range"

\* A graph of order three was constructed from a lower-triangular matrix
\* and the labels 30, 20, 10
C22_Witness ==
    /\ Constructed
    /\ ShapeByRule = "lowerTriangular"
    /\ m_Order = 3
    /\ ExternalToInternal(10) = [status |-> "returned", value |-> 2]
    /\ InternalToExternal(0) = [status |-> "returned", value |-> 30]

\* C23.  On a constructed graph no call of ShortestDistance ends with
\* Dijkstra_InvalidStartVertex: every index for which a call runs
\* InternalDijkstra lies in 0..order-1.  InternalDijkstra itself throws
\* Dijkstra_InvalidStartVertex, leaving the cache as it was, for every
\* index that is not below the order, and for no index below it.
C23_NoInvalidStartVertex ==
    /\ call.status # "Dijkstra_InvalidStartVertex"
    /\ \A k \in 1..Len(call.dijkstraCalls) : call.dijkstraCalls[k] \in Vertices
    /\ \A v \in (0..(MaxOrder + 1)) \cup {UINT_MAX} :
          IF v >= m_Order
          THEN InternalDijkstra(v) =
                   {[status |-> "Dijkstra_InvalidStartVertex",
                     startVertices |-> m_DijkstraStartVertices,
                     outputRoutes |-> m_DijkstraOutputRoutes,
                     shortestDistances |-> m_DijkstraShortestDistances]}
          ELSE \A o \in InternalDijkstra(v) : o.status # "Dijkstra_InvalidStartVertex"

\* A call ran InternalDijkstra for the highest index of a graph of order
\* three when the trees of the two other vertices were stored
C23_Witness ==
    /\ Ended
    /\ m_Order = 3
    /\ call.dijkstraCalls = <<2>>
    /\ call.slotsBefore = 2

\* C24.  A graph that was just constructed has an empty cache, whatever
\* the graph its owner had before held: no source has a slot.  The first
\* call on it therefore finds nothing cached and runs InternalDijkstra.
C24_Step ==
    /\ instance'.number # instance.number =>
          /\ m_DijkstraStartVertices' = <<>>
          /\ m_DijkstraOutputRoutes' = <<>>
          /\ m_DijkstraShortestDistances' = <<>>
    /\ (call.status = "none" /\ call'.status # "none") =>
          /\ call'.cachedBefore = {}
          /\ call'.slotsBefore = 0
          /\ call'.dijkstraCalls # <<>>
          /\ Len(m_DijkstraOutputRoutes') = 1
          /\ Len(m_DijkstraShortestDistances') = 1

C24_NewGraphHasEmptyCache == [][C24_Step]_vars

\* The first call on the second graph of an owner has returned; the graph
\* before it held two trees when it was replaced
C24_Witness ==
    /\ instance.number = 2
    /\ instance.slotsDestroyed >= 2
    /\ Returned
    /\ call.slotsBefore = 0
    /\ call.dijkstraCalls # <<>>
    /\ Len(m_DijkstraOutputRoutes) = 1

\* C25.  Construction from a matrix of more than UINT_MAX rows fails with
\* the too-large error whatever the shape and the entries of the matrix,
\* and builds no graph; the order of every graph that is built is the
\* number of rows of its matrix, never that number modulo 2^w.
C25_TooLargeRejectedFirst ==
    /\ (ConstructorRan /\ Rows > UINT_MAX)
          => /\ construction.status = "InputDistMat_MatrixTooLarge"
             /\ construction.distanceMatrixType = "tooLarge"
             /\ NoGraph
    /\ Constructed => m_Order = Rows

\* The constructor ran on a matrix of UINT_MAX + 2 rows of one valid
\* entry each and one label, which would be a square matrix of order one
\* if the number of rows were taken modulo 2^w
C25_Witness ==
    /\ ConstructorRan
    /\ Rows = UINT_MAX + 2
    /\ Size(inputLabels) = 1
    /\ \A i \in DOMAIN inputMatrix : Size(inputMatrix[i]) = 1 /\ inputMatrix[i][0] = 0
    /\ construction.status = "InputDistMat_MatrixTooLarge"

\* The value a parent vector holds for a vertex without parent: the -1 of
\* line 362 as an unsigned int
NoParent == UINT_MAX

\* Following parents from v reaches s and meets no vertex twice
RECURSIVE ClimbsTo(_, _, _, _)
ClimbsTo(v, s, parent, seen) ==
    IF v = s THEN TRUE
    ELSE IF v \notin DOMAIN parent \/ v \in seen THEN FALSE
    ELSE ClimbsTo(parent[v], s, parent, seen \cup {v})

\* C26.  Every slot of the cache, for a source s, is a shortest-path tree:
\* the parent of s is s; every other vertex v with a distance has as
\* parent a vertex p of the graph that is adjacent to v, and the distance
\* of v is the distance of p plus the weight of the edge from p to v; a
\* vertex has the no-parent value exactly when its distance is -1; and
\* following parents from a vertex with a distance reaches s without
\* meeting a vertex twice.
C26_SlotIsShortestPathTree ==
    \A s \in DOMAIN m_DijkstraStartVertices :
        LET dist == DistancesOf(s)
            parent == ParentsOf(s)
        IN  /\ parent[s] = s
            /\ \A v \in Vertices \ {s} :
                  dist[v] # -1
                      => /\ parent[v] \in Vertices
                         /\ m_AdjacencyMatrix[parent[v]][v]
                         /\ dist[v] = dist[parent[v]] + m_DistanceMatrix[parent[v]][v]
            /\ \A v \in Vertices : (parent[v] = NoParent) <=> (dist[v] = -1)
            /\ \A v \in Vertices : dist[v] # -1 => ClimbsTo(v, s, parent, {})

\* C27.  Every pass through the main loop of InternalDijkstra confirms a
\* vertex that was unconfirmed and had an estimate, whose estimate was the
\* smallest among such vertices and whose index was the lowest among
\* those of that estimate; the pass changes the estimate or the parent
\* only of unconfirmed vertices adjacent to the vertex it confirms, so an
\* estimate or parent that was confirmed never changes.
C27_Step ==
    (dijkstraRun.pc = "loop" /\ dijkstraRun' # dijkstraRun) =>
        LET c == dijkstraRun'.nextClosest
            sd == dijkstraRun.shortestDistances
            known == dijkstraRun.knownDistances
        IN  /\ dijkstraRun'.pc \in {"loop", "done"}
            /\ c \in Vertices
            /\ ~known[c]
            /\ sd[c] # -1
            /\ \A i \in Vertices :
                  (~known[i] /\ sd[i] # -1)
                      => (sd[c] < sd[i] \/ (sd[c] = sd[i] /\ c <= i))
            /\ dijkstraRun'.knownDistances = [known EXCEPT ![c] = TRUE]
            /\ \A i \in Vertices :
                  (\/ dijkstraRun'.shortestDistances[i] # sd[i]
                   \/ dijkstraRun'.outputRoutes[i] # dijkstraRun.outputRoutes[i])
                      => (~known[i] /\ m_AdjacencyMatrix[c][i])

C27_ConfirmsClosestVertex == [][C27_Step]_vars

\* C28.  The classification of a matrix of n >= 1 rows reads only the rows
\* 0..n-1 and so always ends with a result; a matrix with valid entries
\* gets the shape the rule gives it; and from a matrix of one row of
\* length one, with valid entry and one label, a graph of order one is
\* built, the matrix being classified square.
C28_OneRowMatrixIsSquare ==
    (ConstructorRan /\ Rows >= 1)
        => /\ construction.distanceMatrixType # "undefined"
           /\ ValidEntries => construction.distanceMatrixType = ShapeByRule
           /\ (Rows = 1 /\ Lengths[0] = 1 /\ ValidEntries /\ Size(inputLabels) = 1)
                  => /\ construction.distanceMatrixType = "square"
                     /\ Constructed
                     /\ m_Order = 1

\* The slots that hold a tree of source v: the parent of v is v in the
\* tree of v only
SlotsOf(v) ==
    {k \in 1..Len(m_DijkstraOutputRoutes) : m_DijkstraOutputRoutes[k][v] = v}

\* Some call began while a call of the other caller was under way
Overlapped == \E c \in Callers : callers[c].overlapped

\* Both callers found the same source without a slot, computed its tree
\* and have appended their vectors
ComputedTwice(v) ==
    \A c \in Callers :
        /\ callers[c].computed
        /\ callers[c].root = v
        /\ callers[c].pc \in {"unwind", "idle"}

\* C29.  The cache test, the computation and the insertion of a call are
\* separate steps: when the calls of two callers without a lock both find
\* the same source without a slot before either has inserted, the tree of
\* that source is computed twice and two slots are appended for it;
\* when no call begins while another is under way, no source ever has
\* more than one slot.
C29_RaceAppendsTwoSlots ==
    /\ ~Overlapped => \A v \in Vertices : Cardinality(SlotsOf(v)) <= 1
    /\ \A v \in Vertices :
          ComputedTwice(v)
              => /\ Cardinality(SlotsOf(v)) = 2
                 /\ Len(m_DijkstraShortestDistances) >= 2
                 /\ Len(m_DijkstraOutputRoutes) > Cardinality(DOMAIN m_DijkstraStartVertices)

\* On a graph of order three both callers have returned from calls that
\* each computed the tree of vertex 2, and the cache holds two slots for it
C29_Witness ==
    /\ m_Order = 3
    /\ ComputedTwice(2)
    /\ \A c \in Callers : callers[c].pc = "idle"
    /\ Cardinality(SlotsOf(2)) = 2

\* Calls made one after another: both callers have returned, the second
\* call began after the first had ended and found the first call's tree
C29_WitnessInTurn ==
    /\ ~Overlapped
    /\ \A c \in Callers : callers[c].pc = "idle" /\ callers[c].calls = 1
    /\ \E c \in Callers : ~callers[c].computed
    /\ Len(m_DijkstraOutputRoutes) = 1

\* What the call gives on the same graph when its cache is empty: the
\* tree is computed for the start vertex if preferStartVertex and for the
\* end vertex if not (lines 261-270), and the answer is read from it
FreshAnswers(startVertex, endVertex, preferStartVertex) ==
    LET root == IF preferStartVertex THEN startVertex ELSE endVertex
        other == IF preferStartVertex THEN endVertex ELSE startVertex
    IN  UNION {
            IF r.status # "done" THEN {}
            ELSE {[shortestDistance |->
                       ReadDistance(r.shortestDistances, preferStartVertex,
                                    startVertex, endVertex),
                   outputRoute |->
                       InternalToExternalRoute(
                           IF preferStartVertex THEN Reverse(w.route)
                           ELSE w.route).vertices] :
                  w \in {x \in Unwind(<<other>>, root, r.outputRoutes, FALSE) :
                            x.status = "done"}} :
            r \in DijkstraRuns(root)}

\* C30.  The distance and the route that a call (s, t, preferStartVertex)
\* returns, t being reachable from s, are those the same call returns on
\* the same graph with an empty cache: they do not depend on the calls
\* made before it.
C30_HistoryIndependent ==
    (Returned /\ PathExists(iStartVertex, iEndVertex))
        => [shortestDistance |-> shortestDistance, outputRoute |-> outputRoute]
               \in FreshAnswers(iStartVertex, iEndVertex, call.preferStartVertex)

\* ------------------------------------------------------------------------
\* C31.  Structure of the cache in every state that calls made one after
\* another reach: the list of distance vectors and the list of parent
\* vectors have the same length, which is the number of keys of
\* m_DijkstraStartVertices; the map sends different sources to different
\* slot indices, all below that length; every key is a vertex 0..order-1;
\* every stored vector has order elements; and the last call added at most
\* one slot.
C31_CacheStructure ==
    LET slots == Len(m_DijkstraOutputRoutes)
        keys == DOMAIN m_DijkstraStartVertices
    IN  /\ Len(m_DijkstraShortestDistances) = slots
        /\ Cardinality(keys) = slots
        /\ \A v \in keys : m_DijkstraStartVertices[v] \in 0..(slots - 1)
        /\ \A v, w \in keys :
              v # w => m_DijkstraStartVertices[v] # m_DijkstraStartVertices[w]
        /\ keys \subseteq 0..(m_Order - 1)
        /\ \A k \in 1..slots :
              /\ DOMAIN m_DijkstraOutputRoutes[k] = 0..(m_Order - 1)
              /\ DOMAIN m_DijkstraShortestDistances[k] = 0..(m_Order - 1)
        /\ Called => /\ slots >= call.slotsBefore
                     /\ slots <= call.slotsBefore + 1

\* A call that found two slots stored a third, and the map holds three
\* sources
C31_Witness ==
    /\ Ended
    /\ call.slotsBefore = 2
    /\ Len(m_DijkstraOutputRoutes) = 3
    /\ Cardinality(DOMAIN m_DijkstraStartVertices) = 3
    /\ call.dijkstraCalls # <<>>

\* ------------------------------------------------------------------------
\* C32.  The route of a query that returns is a simple path: no vertex
\* appears in it twice, so it has at most order vertices and the walk up
\* the parent vector that built it took at most order - 1 steps; graphs
\* with edges of weight 0 included.
C32_RouteIsSimple ==
    Returned
        => /\ \A a, b \in 1..Len(outputRoute) :
                 a # b => outputRoute[a] # outputRoute[b]
           /\ Len(outputRoute) <= m_Order
           /\ Len(outputRoute) - 1 <= m_Order - 1

\* A returned route through all three vertices of a graph, both of whose
\* edges have weight 0
C32_Witness ==
    /\ Returned
    /\ m_Order = 3
    /\ Len(outputRoute) = 3
    /\ \A k \in 1..2 : m_DistanceMatrix[iRoute[k]][iRoute[k + 1]] = 0

\* ------------------------------------------------------------------------
\* The rules an input breaks, and the error each rule stands for, in the
\* order of precedence
Precedence ==
    <<"InputDistMat_MatrixTooLarge", "InputDistMat_NotSquareMatrix",
      "InputDistMat_InvalidElements", "InputVertexLabels_BadSize",
      "InputVertexLabels_RepeatedLabel">>

Breaks(k) ==
    CASE k = 1 -> Rows > UINT_MAX
      [] k = 2 -> ShapeByRule = "badShape"
      [] k = 3 -> ~ValidEntries
      [] k = 4 -> Size(inputLabels) # Rows
      [] k = 5 -> LabelsRepeat

BrokenRules == {k \in DOMAIN Precedence : Breaks(k)}

FirstBroken == CHOOSE k \in BrokenRules : \A l \in BrokenRules : k <= l

\* C33.  Construction from an input that breaks several rules fails with
\* one error, that of the first broken rule in the order: matrix too large,
\* bad shape, invalid elements, bad label count, repeated label.
C33_ErrorPrecedence ==
    (ConstructorRan /\ Cardinality(BrokenRules) >= 2)
        => construction.status = Precedence[FirstBroken]

====
